---- MODULE Spec2Model ----
(***************************************************************************)
(* A model of eth-registrar-ens (src/src/index.js): the Registrar client   *)
(* of the ENS auction registrar.  The state is the registrar's             *)
(* configuration, the wall clock, the requests web3 holds in flight, and   *)
(* what the last call of a public method did (its ledger calls, and how    *)
(* it completed).  The ledger and the name normaliser are collaborators:   *)
(* what they answer is drawn from small sets.                              *)
(***************************************************************************)
EXTENDS Integers, Sequences, FiniteSets, TLC

VARIABLES minLength, web3Prefixed, now, pending, result, ledger

vars == <<minLength, web3Prefixed, now, pending, result, ledger>>

(***************************************************************************)
(* Bounds of the model.                                                    *)
(***************************************************************************)
\* names have MinNameLen..MaxNameLen characters
MinNameLen == 5
MaxNameLen == 8
\* registration dates are 1..MaxDays days after the epoch
MaxDays == 2
\* the clock is sampled at each window boundary and Slack milliseconds
\* before and after it
Slack == 1
\* bid values and deposits are 0..MaxValue wei
MaxValue == 2
\* Math.random() may repeat a value among the first MaxDup draws of a batch
MaxDup == 2
\* requests web3 holds in flight at once
MaxPending == 1

(***************************************************************************)
(* Constants of the program.                                               *)
(***************************************************************************)
\* function Registrar(web3, ens, tld = 'eth', minLength = 7)
DefaultMinLength == 7
\* if (name.length < 7) in Entry
EntryMinLength == 7
\* new Array(10) in openAuction
BatchSize == 10
\* const hours = 60 * 60 * 1000
hours == 60 * 60 * 1000
\* seconds in a day: registrationDate is in seconds, Date in milliseconds
DaySeconds == 24 * 60 * 60

ZeroAddress == "0x0000000000000000000000000000000000000000"
DeedAddress == "0x268e06911ba1ddc9138b355f9b42711abbc6eaec"
Accounts == {"0x8394a052eb6c32fb9defcaabc12fcbd8fea0b8a8"}

\* Registrar.TooShort, Registrar.NoDeposit, and what the collaborators raise
TooShort == "Name is too short"
NoDeposit == "You must specify a deposit amount greater than the value of your bid"
NormaliseError == "Illegal char"
LedgerError == "ledger call failed"
NoError == "null"

\* JavaScript's undefined and null, and a present value
Undefined == <<>>
Null == <<>>
Some(v) == <<v>>

(***************************************************************************)
(* JavaScript strings.  A string is either text, a sequence of characters, *)
(* or the 64 hex digits of the Keccak-256 digest of a text, with or        *)
(* behind pre copies of the "0x" prefix.  The characters of a name are:    *)
(* "a" a lower case letter, "A" an upper case letter, "h" a soft hyphen    *)
(* (U+00AD), "_" a character STD3 disallows, and the digits and the dot    *)
(* of a decimal number.                                                    *)
(***************************************************************************)
Text(cs) == [hex |-> FALSE, pre |-> 0, s |-> cs]
HexDigest(pre, cs) == [hex |-> TRUE, pre |-> pre, s |-> cs]

\* String.prototype.length
length(x) == IF x.hex THEN 64 + 2 * x.pre ELSE Len(x.s)

\* x.substring(0, 2) === '0x'
StartsWith0x(x) == x.hex /\ x.pre >= 1

\* x[1] === 'x': a hex digit is never 'x'
SecondCharIsX(x) == x.hex /\ x.pre >= 1

RECURSIVE Rep(_, _)
Rep(c, n) == IF n = 0 THEN <<>> ELSE <<c>> \o Rep(c, n - 1)

NameLens == MinNameLen..MaxNameLen

\* the raw names a caller passes
Names ==
    {Text(Rep("a", n)) : n \in NameLens}
    \cup {Text(<<"A">> \o Rep("a", n - 1)) : n \in {MaxNameLen}}
    \cup {Text(Rep("a", n - 1) \o <<"h">>) : n \in {MaxNameLen - 1, MaxNameLen}}
    \cup {Text(Rep("a", n - 1) \o <<"_">>) : n \in {MinNameLen, MaxNameLen}}
    \cup {Text(<<"0", ".">> \o Rep("1", n - 2)) : n \in {MaxNameLen}}

(***************************************************************************)
(* normalise = ENS.prototype.normalise: UTS46 toUnicode with useStd3ASCII. *)
(* It lower-cases, drops ignored code points and throws on a disallowed    *)
(* character.                                                              *)
(***************************************************************************)
RECURSIVE MapChars(_)
MapChars(cs) ==
    IF cs = <<>> THEN <<>>
    ELSE LET c == Head(cs)
         IN  (IF c = "A" THEN <<"a">> ELSE IF c = "h" THEN <<>> ELSE <<c>>)
             \o MapChars(Tail(cs))

normaliseThrows(name) == \E i \in 1..Len(name.s) : name.s[i] = "_"

normalise(name) == Text(MapChars(name.s))

(***************************************************************************)
(* The hashing adapter.                                                    *)
(***************************************************************************)
\* web3.sha3: before web3 0.16 it returned the digest without "0x"
web3sha3(x) == HexDigest(IF web3Prefixed THEN 1 ELSE 0, x.s)

\* `0x${result}`
Prepend0x(r) == [r EXCEPT !.pre = @ + 1]

\* the prefix added without looking at the result
sha3withZeroXAlways(x) == Prepend0x(web3sha3(x))

sha3withZeroX(x) ==
    LET r == web3sha3(x)
    IN  IF ~SecondCharIsX(r) THEN Prepend0x(r) ELSE r

sha3(x) == sha3withZeroX(x)

(***************************************************************************)
(* Entry: the mode of a name.  t is new Date(), in milliseconds.           *)
(***************************************************************************)
\* the last branch tested instead of left to else: the boundary instants
\* fall through and the mode stays ''
BiddingModeGap(registrationDate, t) ==
    LET registration == registrationDate * 1000
    IN  IF (registration - t) > 24 * hours THEN "auction"
        ELSE IF t < registration /\ (registration - t) < 24 * hours THEN "reveal"
        ELSE IF t > registration /\ (t - registration) < 24 * hours THEN "finalize"
        ELSE IF (t - registration) > 24 * hours THEN "finalize-open"
        ELSE ""

BiddingMode(registrationDate, t) ==
    LET registration == registrationDate * 1000
    IN  IF (registration - t) > 24 * hours THEN "auction"
        ELSE IF t < registration /\ (registration - t) < 24 * hours THEN "reveal"
        ELSE IF t > registration /\ (t - registration) < 24 * hours THEN "finalize"
        ELSE "finalize-open"

\* the status test of the last branch off by one: Owned is never recognised
EntryModeOwnedMissed(name, status, registrationDate, t) ==
    IF length(name) < EntryMinLength
    THEN IF status = 0 THEN "invalid" ELSE "can-invalidate"
    ELSE IF status = 0 THEN "open"
         ELSE IF status = 1 THEN BiddingMode(registrationDate, t)
         ELSE IF status = 3 THEN "owned"
         ELSE ""

EntryMode(name, status, registrationDate, t) ==
    IF length(name) < EntryMinLength
    THEN IF status = 0 THEN "invalid" ELSE "can-invalidate"
    ELSE IF status = 0 THEN "open"
         ELSE IF status = 1 THEN BiddingMode(registrationDate, t)
         ELSE IF status = 2 THEN "owned"
         ELSE ""

\* constructedAt is not a field of the object: it records the value of
\* new Date() the constructor read
Entry(name, hash, status, deed, registrationDate, value, highestBid, t) ==
    [name |-> name, hash |-> hash, status |-> status, deed |-> deed,
     registrationDate |-> registrationDate, value |-> value,
     highestBid |-> highestBid,
     mode |-> EntryMode(name, status, registrationDate, t),
     constructedAt |-> t]

Deed(address, balance, creationDate, owner) ==
    [address |-> address, balance |-> balance,
     creationDate |-> creationDate, owner |-> owner]

(***************************************************************************)
(* What the ledger may answer.                                             *)
(***************************************************************************)
Statuses == 0..2
RegDates == {d * DaySeconds : d \in 1..MaxDays}
Values == 0..MaxValue

\* contract.entries(hash): (status, deed, registrationDate, value, highestBid)
\* An Open entry has no deed and an Owned entry has one.
LedgerEntries ==
    {e \in {<<st, d, r, v, v>> : st \in Statuses, d \in {ZeroAddress, DeedAddress},
                                 r \in RegDates, v \in {MaxValue}} :
        /\ e[1] = 0 => e[2] = ZeroAddress
        /\ e[1] = 2 => e[2] = DeedAddress}

\* the instants the clock is sampled at: around the deadline and 24 hours
\* on either side of it, for every registration date
Offsets ==
    UNION {{b - Slack, b, b + Slack} : b \in {0 - 24 * hours, 0, 24 * hours}}
TimePoints == {t \in {r * 1000 + o : r \in RegDates, o \in Offsets} : t >= 0}

(***************************************************************************)
(* The record of the last call of a public method.                         *)
(***************************************************************************)
Call(method, args) == [method |-> method, args |-> args]

Outcome(op, cb, input, how, err, val, calls) ==
    [op |-> op, cb |-> cb, input |-> input, how |-> how, err |-> err,
     val |-> val, calls |-> calls]

NoResult == Outcome("none", FALSE, <<>>, "none", NoError, <<>>, <<>>)

MinLengths == {DefaultMinLength - 1, DefaultMinLength, DefaultMinLength + 1}

\* the sealed-bid records of the ledger, as far as the model follows them:
\* sealed holds the commitments with a non-zero record, sent the writes and
\* reads in flight (the k-th belongs to the k-th request of pending);
\* submitted, revealed and asked are not state of the ledger: they record
\* the commitments a submit stored, those a reveal cleared, and the one the
\* last answer of isBidRevealed was about
EmptyLedger ==
    [sealed |-> {}, sent |-> <<>>, submitted |-> {}, revealed |-> {},
     asked |-> Undefined]

Init ==
    /\ minLength \in MinLengths
    /\ web3Prefixed \in BOOLEAN
    /\ now \in TimePoints
    /\ pending = <<>>
    /\ result = NoResult
    /\ ledger = EmptyLedger

Idle == result = NoResult

\* the caller makes a call: no call is in progress, and fewer than
\* MaxPending of its earlier calls still wait for their callback
Ready == Idle /\ Len(pending) < MaxPending

\* the requests one call of a method of the contract or of web3.eth sends
contractCallTwice(method, args) == <<Call(method, args), Call(method, args)>>

contractCall(method, args) == <<Call(method, args)>>

\* the wall clock advances between two calls
Tick ==
    /\ Idle
    /\ \E t \in TimePoints : t > now /\ now' = t
    /\ UNCHANGED <<minLength, web3Prefixed, pending, result>>

(***************************************************************************)
(* getDeed and getEntry.  Every web3 call here is synchronous, with or     *)
(* without a callback.                                                     *)
(***************************************************************************)
\* what getDeed reads: balance, creationDate, owner
DeedReads == {<<b, c, o>> : b \in {MaxValue}, c \in {DaySeconds}, o \in Accounts}

\* the deed contract read once more than getDeed does
getDeedCallsExtra(address) ==
    contractCall("getBalance", <<address>>) \o contractCall("creationDate", <<address>>)
    \o contractCall("owner", <<address>>) \o contractCall("registrar", <<address>>)

getDeedCalls(address) ==
    contractCall("getBalance", <<address>>) \o contractCall("creationDate", <<address>>)
    \o contractCall("owner", <<address>>)

\* the owner left out
getDeedNoOwner(address, reads) == Deed(address, Some(reads[1]), Some(reads[2]), Null)

getDeed(address, reads) == Deed(address, Some(reads[1]), Some(reads[2]), Some(reads[3]))

\* getDeed takes no callback; any of its three reads may fail
GetDeed ==
    /\ Ready
    /\ \E address \in {ZeroAddress, DeedAddress} :
           /\ \/ \E reads \in DeedReads :
                    result' = Outcome("getDeed", FALSE, address, "returned", NoError,
                                      getDeed(address, reads), getDeedCalls(address))
              \/ \E k \in 1..Len(getDeedCalls(address)) :
                    result' = Outcome("getDeed", FALSE, address, "threw", LedgerError,
                                      Null, SubSeq(getDeedCalls(address), 1, k))
           /\ UNCHANGED <<minLength, web3Prefixed, now, pending>>

\* what a caller passes to getEntry: a name, or the hash of one
EntryInputs == Names \cup {sha3(Text(Rep("a", MaxNameLen)))}

GetEntry ==
    /\ Ready
    /\ \E input \in EntryInputs,
          cb \in BOOLEAN :
           /\ IF ~StartsWith0x(input) /\ normaliseThrows(input)
              THEN result' = Outcome("getEntry", cb, input, "threw", NormaliseError, <<>>, <<>>)
              ELSE LET name == IF ~StartsWith0x(input) THEN normalise(input) ELSE input
                       hash == IF ~StartsWith0x(input) THEN sha3(name) ELSE input
                       entriesCall == contractCall("entries", <<hash>>)
                   IN  \/ result' = Outcome("getEntry", cb, input, "threw", LedgerError,
                                            <<>>, entriesCall)
                       \/ \E k \in 1..Len(getDeedCalls(DeedAddress)) :
                             result' = Outcome("getEntry", cb, input, "threw", LedgerError,
                                               <<>>, entriesCall
                                                     \o SubSeq(getDeedCalls(DeedAddress), 1, k))
                       \/ \E e \in LedgerEntries, reads \in DeedReads :
                             LET deed == IF e[2] # ZeroAddress
                                         THEN getDeed(e[2], reads)
                                         ELSE Deed(e[2], Null, Null, Null)
                                 calls == IF e[2] # ZeroAddress
                                          THEN entriesCall \o getDeedCalls(e[2])
                                          ELSE entriesCall
                                 entry == Entry(name, hash, e[1], deed, e[3], e[4], e[5], now)
                             IN  result' = Outcome("getEntry", cb, input,
                                                   IF cb THEN "callback" ELSE "returned",
                                                   NoError, entry, calls)
           /\ UNCHANGED <<minLength, web3Prefixed, now, pending>>

(***************************************************************************)
(* checkLength                                                             *)
(***************************************************************************)
\* the literal of Entry used instead of this.minLength
checkLengthThrowsLiteral(name) == length(name) < EntryMinLength

checkLengthThrows(name) == length(name) < minLength

(***************************************************************************)
(* openAuction.  Math.random() is a choice: the draws of a batch and the   *)
(* position j.  A ledger write without a callback returns the transaction  *)
(* id or throws; with a callback web3 takes the request and calls back     *)
(* later (Complete).                                                       *)
(***************************************************************************)
TxId == "0x9fc76417374aa880d4449a1f7f31ec597f00b1f6f3dd2d66f4c9c6c445836d8b"

\* Math.random().toString() of the k-th value of the generator
RandomString(k) == Text(<<"0", ".">> \o Rep("1", k))

\* the values Math.random() returns for the ten decoys: all different, or
\* the first draw repeating one of the next MaxDup - 1
RandomDraws ==
    {[i \in 1..BatchSize |-> IF i = 1 THEN r ELSE i] : r \in 1..MaxDup}

\* Math.floor(Math.random() * 10) + 1, sampled: the first place, the place
\* of the draw the first one may repeat, the last place
Positions == {1, MaxDup, BatchSize}

\* the random strings themselves, not hashed
randomStrings(draws) == [i \in 1..BatchSize |-> RandomString(draws[i])]

randomHashes(draws) == [i \in 1..BatchSize |-> sha3(RandomString(draws[i]))]

\* the transaction objects a caller passes: {} or {value: v}
NoParams == [value |-> Undefined]
Params == {NoParams} \cup {[value |-> Some(v)] : v \in Values}

Request(op, method) == [op |-> op, method |-> method]

OpenAuction ==
    /\ Ready
    /\ \E name \in Names, draws \in RandomDraws, j \in Positions, cb \in BOOLEAN :
           LET params == NoParams
               failed == IF cb THEN "callback" ELSE "threw"
               normalisedName == normalise(name)
               hash == sha3(normalisedName)
               batch == [randomHashes(draws) EXCEPT ![j] = hash]
               write == contractCall("startAuctions", <<batch, params>>)
           IN  /\ IF normaliseThrows(name)
                  THEN /\ result' = Outcome("openAuction", cb, name, failed,
                                            NormaliseError, Null, <<>>)
                       /\ UNCHANGED pending
                  ELSE IF checkLengthThrows(name)
                  THEN /\ result' = Outcome("openAuction", cb, name, failed,
                                            TooShort, Null, <<>>)
                       /\ UNCHANGED pending
                  ELSE IF cb
                  THEN /\ Len(pending) < MaxPending
                       /\ pending' = Append(pending, Request("openAuction", "startAuctions"))
                       /\ result' = Outcome("openAuction", cb, name, "dispatched",
                                            NoError, Undefined, write)
                  ELSE /\ \/ result' = Outcome("openAuction", cb, name, "returned",
                                               NoError, Some(TxId), write)
                          \/ result' = Outcome("openAuction", cb, name, "threw",
                                               LedgerError, Null, write)
                       /\ UNCHANGED pending
               /\ UNCHANGED <<minLength, web3Prefixed, now>>

(***************************************************************************)
(* bidFactory                                                              *)
(***************************************************************************)
Secrets == {Text(<<"s", "e", "c", "r", "e", "t">>)}

\* contract.shaBid(hash, owner, value, salt): the ledger's commitment
shaBid(hash, owner, value, hexSecret) ==
    [sealed |-> <<hash, owner, value, hexSecret>>]

bidObject(name, owner, value, secret) ==
    LET normalisedName == normalise(name)
    IN  [name |-> normalisedName, hash |-> sha3(normalisedName), value |-> value,
         owner |-> owner, secret |-> secret, hexSecret |-> sha3(secret),
         shaBid |-> shaBid(sha3(normalisedName), owner, value, sha3(secret))]

BidFactory ==
    /\ Ready
    /\ \E name \in Names, owner \in Accounts, v \in Values, secret \in Secrets :
           LET value == Some(v)
               bid == bidObject(name, owner, value, secret)
               read == contractCall("shaBid", <<bid.hash, owner, value, bid.hexSecret>>)
           IN  /\ IF checkLengthThrows(name)
                  THEN result' = Outcome("bidFactory", FALSE, name, "threw", TooShort,
                                         Null, <<>>)
                  ELSE IF normaliseThrows(name)
                  THEN result' = Outcome("bidFactory", FALSE, name, "threw",
                                         NormaliseError, Null, <<>>)
                  ELSE \/ result' = Outcome("bidFactory", FALSE, name, "returned",
                                            NoError, bid, read)
                       \/ result' = Outcome("bidFactory", FALSE, name, "threw",
                                            LedgerError, Null, read)
               /\ UNCHANGED <<minLength, web3Prefixed, now, pending>>

(***************************************************************************)
(* submitBid                                                               *)
(***************************************************************************)
\* JavaScript's a < b on numbers: false when either side is undefined (NaN)
JsLess(a, b) == a # Undefined /\ b # Undefined /\ a[1] < b[1]

\* the comparison turned round
DepositTooLowReversed(params, bid) == JsLess(bid.value, params.value)

DepositTooLow(params, bid) == JsLess(params.value, bid.value)

\* the bids a caller holds: what bidFactory returns
Bids ==
    {bidObject(n, o, Some(v), s) :
        n \in {m \in Names : ~normaliseThrows(m) /\ ~checkLengthThrows(m)},
        o \in Accounts, v \in Values, s \in Secrets}

SubmitBid ==
    /\ Ready
    /\ \E bid \in Bids, params \in Params, cb \in BOOLEAN :
           LET write == contractCall("newBid", <<bid.shaBid, params>>)
           IN  /\ IF DepositTooLow(params, bid)
                  THEN /\ result' = Outcome("submitBid", cb, <<bid, params>>,
                                            IF cb THEN "callback" ELSE "threw",
                                            NoDeposit, Null, <<>>)
                       /\ UNCHANGED pending
                  ELSE IF cb
                  THEN /\ Len(pending) < MaxPending
                       /\ pending' = Append(pending, Request("submitBid", "newBid"))
                       /\ result' = Outcome("submitBid", cb, <<bid, params>>,
                                            "dispatched", NoError, Undefined, write)
                  ELSE /\ \/ result' = Outcome("submitBid", cb, <<bid, params>>,
                                               "returned", NoError, Some(TxId), write)
                          \/ result' = Outcome("submitBid", cb, <<bid, params>>,
                                               "threw", LedgerError, Null, write)
                       /\ UNCHANGED pending
               /\ UNCHANGED <<minLength, web3Prefixed, now>>

(***************************************************************************)
(* unsealBid                                                               *)
(***************************************************************************)
\* hash and hexSecret in each other's place
unsealBidArgsSwapped(bid, params) ==
    <<bid.hexSecret, bid.owner, bid.value, bid.hash, params>>

\* what unsealBid passes to contract.unsealBid
unsealBidArgs(bid, params) ==
    <<bid.hash, bid.owner, bid.value, bid.hexSecret, params>>

UnsealBid ==
    /\ Ready
    /\ \E bid \in Bids, cb \in BOOLEAN :
           LET params == NoParams
               write == contractCall("unsealBid", unsealBidArgs(bid, params))
           IN  /\ IF cb
                  THEN /\ pending' = Append(pending, Request("unsealBid", "unsealBid"))
                       /\ result' = Outcome("unsealBid", cb, <<bid, params>>,
                                            "dispatched", NoError, Undefined, write)
                  ELSE /\ \/ result' = Outcome("unsealBid", cb, <<bid, params>>,
                                               "returned", NoError, Some(TxId), write)
                          \/ result' = Outcome("unsealBid", cb, <<bid, params>>,
                                               "threw", LedgerError, Null, write)
                       /\ UNCHANGED pending
               /\ UNCHANGED <<minLength, web3Prefixed, now>>

(***************************************************************************)
(* isBidRevealed.  The input of its outcome holds the bid and, once the    *)
(* ledger has answered, the address sealedBids gave.                       *)
(***************************************************************************)
\* what contract.sealedBids may answer
SealedBidAnswers == {ZeroAddress, DeedAddress}

\* !== in place of ===
isRevealedNegated(answer) == answer # ZeroAddress

\* result === '0x0000000000000000000000000000000000000000'
isRevealed(answer) == answer = ZeroAddress

IsBidRevealed ==
    /\ Ready
    /\ \E bid \in Bids, cb \in BOOLEAN :
           LET read == contractCall("sealedBids", <<bid.shaBid>>)
               asked(answer) == [bid |-> bid, answer |-> answer]
           IN  /\ IF cb
                  THEN /\ pending' = Append(pending, Request("isBidRevealed", "sealedBids"))
                       /\ result' = Outcome("isBidRevealed", cb, asked(Undefined),
                                            "dispatched", NoError, Undefined, read)
                  ELSE /\ \/ \E a \in SealedBidAnswers :
                                result' = Outcome("isBidRevealed", cb, asked(Some(a)),
                                                  "returned", NoError,
                                                  Some(isRevealed(a)), read)
                          \/ result' = Outcome("isBidRevealed", cb, asked(Undefined),
                                               "threw", LedgerError, Null, read)
                       /\ UNCHANGED pending
               /\ UNCHANGED <<minLength, web3Prefixed, now>>

(***************************************************************************)
(* finalizeAuction                                                         *)
(***************************************************************************)
FinalizeAuction ==
    /\ Ready
    /\ \E name \in Names, cb \in BOOLEAN :
           LET params == NoParams
               normalisedName == normalise(name)
               hash == sha3(normalisedName)
               write == contractCall("finalizeAuction", <<hash, params>>)
           IN  /\ IF normaliseThrows(name)
                  THEN /\ result' = Outcome("finalizeAuction", cb, name, "threw",
                                            NormaliseError, Null, <<>>)
                       /\ UNCHANGED pending
                  ELSE IF cb
                  THEN /\ pending' = Append(pending,
                                            Request("finalizeAuction", "finalizeAuction"))
                       /\ result' = Outcome("finalizeAuction", cb, name, "dispatched",
                                            NoError, Undefined, write)
                  ELSE /\ \/ result' = Outcome("finalizeAuction", cb, name, "returned",
                                               NoError, Some(TxId), write)
                          \/ result' = Outcome("finalizeAuction", cb, name, "threw",
                                               LedgerError, Null, write)
                       /\ UNCHANGED pending
               /\ UNCHANGED <<minLength, web3Prefixed, now>>

(***************************************************************************)
(* web3 completes a request in flight and calls the callback it was given: *)
(* the caller's own, or for sealedBids the one isBidRevealed wraps it in.  *)
(* The input of the outcome holds the method and what web3 delivered.      *)
(***************************************************************************)
Remove(q, i) == [k \in 1..(Len(q) - 1) |-> IF k < i THEN q[k] ELSE q[k + 1]]

Delivered(method, answer) == [method |-> method, answer |-> answer]

Complete ==
    \E i \in 1..Len(pending) :
        LET op == pending[i].op
            method == pending[i].method
        IN  /\ Idle
            /\ pending' = Remove(pending, i)
            /\ \/ result' = Outcome(op, TRUE, Delivered(method, Undefined), "completed",
                                    LedgerError, Undefined, <<>>)
               \/ /\ op = "isBidRevealed"
                  /\ \E a \in SealedBidAnswers :
                        result' = Outcome(op, TRUE, Delivered(method, Some(a)),
                                          "completed", NoError, Some(isRevealed(a)),
                                          <<>>)
               \/ /\ op # "isBidRevealed"
                  /\ result' = Outcome(op, TRUE, Delivered(method, Some(TxId)),
                                       "completed", NoError, Some(TxId), <<>>)
            /\ UNCHANGED <<minLength, web3Prefixed, now>>

\* the caller takes the outcome of the call and goes on
Consume ==
    /\ ~Idle
    /\ result' = NoResult
    /\ UNCHANGED <<minLength, web3Prefixed, now, pending>>

\* Any ledger: what it answers is a free choice in every call, and its
\* records are not followed.
Next ==
    \/ Tick /\ UNCHANGED ledger
    \/ Consume /\ UNCHANGED ledger
    \/ GetDeed /\ UNCHANGED ledger
    \/ GetEntry /\ UNCHANGED ledger
    \/ OpenAuction /\ UNCHANGED ledger
    \/ BidFactory /\ UNCHANGED ledger
    \/ SubmitBid /\ UNCHANGED ledger
    \/ UnsealBid /\ UNCHANGED ledger
    \/ IsBidRevealed /\ UNCHANGED ledger
    \/ FinalizeAuction /\ UNCHANGED ledger
    \/ Complete /\ UNCHANGED ledger

Spec == Init /\ [][Next]_vars

(***************************************************************************)
(* The same calls against a ledger that keeps sealed-bid records: newBid   *)
(* stores a non-zero record under the commitment, unsealBid recomputes the *)
(* commitment from what it is sent and clears the record it finds, and     *)
(* sealedBids reads the record.  A write takes effect when the call        *)
(* returns the transaction id or web3 hands it to the callback.            *)
(***************************************************************************)
\* the bids the caller works with
LedgerBids == {b \in Bids : b.name = Text(Rep("a", MaxNameLen))}

\* sealedBids(c)
Record(c) == IF c \in ledger.sealed THEN DeedAddress ELSE ZeroAddress

\* newBid(c) on the ledger l
Stored(l, c) == [l EXCEPT !.sealed = @ \cup {c}, !.submitted = @ \cup {c}]

\* the commitment unsealBid computes from the arguments of the call
Unsealed(call) == shaBid(call.args[1], call.args[2], call.args[3], call.args[4])

\* unsealBid on the ledger l, for the commitment c it found
Cleared(l, c) == [l EXCEPT !.sealed = @ \ {c}, !.revealed = @ \cup {c}]

\* the request of a call with a callback is in flight
Sent(l, call) == [l EXCEPT !.sent = Append(@, call)]

LedgerSubmitBid ==
    /\ SubmitBid
    /\ result'.input[1] \in LedgerBids
    /\ ledger' =
           IF result'.how = "returned"
           THEN Stored(ledger, result'.calls[1].args[1])
           ELSE IF result'.how = "dispatched"
           THEN Sent(ledger, result'.calls[1])
           ELSE ledger

\* the ledger accepts a reveal only when it finds the record
LedgerUnsealBid ==
    /\ UnsealBid
    /\ result'.input[1] \in LedgerBids
    /\ result'.how = "returned" => Unsealed(result'.calls[1]) \in ledger.sealed
    /\ ledger' =
           IF result'.how = "returned"
           THEN Cleared(ledger, Unsealed(result'.calls[1]))
           ELSE IF result'.how = "dispatched"
           THEN Sent(ledger, result'.calls[1])
           ELSE ledger

LedgerIsBidRevealed ==
    /\ IsBidRevealed
    /\ result'.input.bid \in LedgerBids
    /\ result'.how = "returned" =>
           result'.input.answer = Some(Record(result'.calls[1].args[1]))
    /\ ledger' =
           IF result'.how = "returned"
           THEN [ledger EXCEPT !.asked = Some(result'.calls[1].args[1])]
           ELSE IF result'.how = "dispatched"
           THEN Sent(ledger, result'.calls[1])
           ELSE ledger

\* web3 completes the i-th request: the ledger has carried it out, or the
\* request has failed and the ledger is as it was
LedgerComplete ==
    \E i \in 1..Len(pending) :
        /\ Complete
        /\ pending' = Remove(pending, i)
        /\ LET call == ledger.sent[i]
               rest == [ledger EXCEPT !.sent = Remove(@, i)]
           IN  IF result'.err # NoError
               THEN ledger' = rest
               ELSE IF call.method = "newBid"
               THEN ledger' = Stored(rest, call.args[1])
               ELSE IF call.method = "unsealBid"
               THEN /\ Unsealed(call) \in ledger.sealed
                    /\ ledger' = Cleared(rest, Unsealed(call))
               ELSE /\ result'.input.answer = Some(Record(call.args[1]))
                    /\ ledger' = [rest EXCEPT !.asked = Some(call.args[1])]

LedgerConsume ==
    /\ Consume
    /\ ledger' = [ledger EXCEPT !.asked = Undefined]

LedgerNext ==
    \/ LedgerSubmitBid
    \/ LedgerUnsealBid
    \/ LedgerIsBidRevealed
    \/ LedgerComplete
    \/ LedgerConsume

\* none of these calls reads the clock: it stands at its first instant
LedgerInit == Init /\ \A t \in TimePoints : now <= t

LedgerSpec == LedgerInit /\ [][LedgerNext]_vars

(***************************************************************************)
(* The properties.                                                         *)
(***************************************************************************)
\* getEntry has built an Entry: result.val is the Entry
EntryBuilt == result.op = "getEntry" /\ result.how \in {"returned", "callback"}

\* the Entry is in status Bidding and its name passes the length test of
\* the Entry constructor
BiddingEntry ==
    /\ EntryBuilt
    /\ result.val.status = 1
    /\ length(result.val.name) >= EntryMinLength

\* milliseconds from the registration date to the instant the Entry was built
SinceDeadline == result.val.constructedAt - result.val.registrationDate * 1000

\* C1: an Entry in status Bidding whose name has at least the minimum
\* length of the constructor gets one of the modes auction, reveal,
\* finalize, finalize-open, whatever the clock and the registration date.
C1_BiddingModeIsOneOfFour ==
    BiddingEntry =>
        result.val.mode \in {"auction", "reveal", "finalize", "finalize-open"}

C1_Witness ==
    /\ BiddingEntry
    /\ 0 - SinceDeadline = Slack
    /\ result.val.mode = "reveal"

\* C2: an Entry in status Bidding built at the very instant of its
\* registration date has mode finalize.
C2_AtDeadlineFinalize ==
    (BiddingEntry /\ SinceDeadline = 0) => result.val.mode = "finalize"

\* C3: an Entry in status Bidding built at most 24 hours before its
\* registration date, the instant 24 hours before included, has mode reveal.
C3_LastDayReveal ==
    (BiddingEntry /\ 0 < 0 - SinceDeadline /\ 0 - SinceDeadline <= 24 * hours)
        => result.val.mode = "reveal"

\* C4: an Entry in status Bidding built at most 24 hours after its
\* registration date, the instant 24 hours after included, has mode finalize.
C4_FirstDayFinalize ==
    (BiddingEntry /\ 0 < SinceDeadline /\ SinceDeadline <= 24 * hours)
        => result.val.mode = "finalize"

\* C5: an Entry in status Bidding has mode finalize-open exactly when it is
\* built more than 24 hours after its registration date.
C5_FinalizeOpenOnlyOverdue ==
    BiddingEntry =>
        (result.val.mode = "finalize-open" <=> SinceDeadline > 24 * hours)

\* C6: the Entry getEntry builds is invalid (status Open) or can-invalidate
\* (any other status) when its name is shorter than the minLength the
\* Registrar was constructed with, and neither of the two otherwise.
C6_ConfiguredMinLengthDecides ==
    EntryBuilt =>
        IF length(result.val.name) < minLength
        THEN result.val.mode =
                 (IF result.val.status = 0 THEN "invalid" ELSE "can-invalidate")
        ELSE result.val.mode \notin {"invalid", "can-invalidate"}

\* C7, as claimed: every Entry in status Owned has mode owned.
C7_OwnedAlwaysOwned ==
    (EntryBuilt /\ result.val.status = 2) => result.val.mode = "owned"

\* C7, amended: an Entry in status Owned has mode owned when its name has at
\* least the 7 characters the constructor asks for, whatever the clock and
\* the registration date, and mode can-invalidate when its name is shorter.
C7_OwnedUnlessShort ==
    (EntryBuilt /\ result.val.status = 2) =>
        result.val.mode =
            (IF length(result.val.name) >= EntryMinLength
             THEN "owned" ELSE "can-invalidate")

C7_Witness ==
    /\ EntryBuilt
    /\ result.val.status = 2
    /\ length(result.val.name) >= EntryMinLength
    /\ SinceDeadline > 24 * hours
    /\ result.val.mode = "owned"

\* bidFactory or openAuction was called with a name shorter than minLength
ShortNameCall ==
    /\ result.op \in {"bidFactory", "openAuction"}
    /\ result.how # "completed"
    /\ length(result.input) < minLength

\* the call failed on its own, before any ledger call: thrown without a
\* callback, handed to the callback with one
FailedBeforeLedger ==
    /\ result.how = (IF result.cb THEN "callback" ELSE "threw")
    /\ Len(result.calls) = 0

\* C8, as claimed: with a name shorter than minLength, bidFactory and
\* openAuction fail with TooShort before any ledger call.
C8_ShortNameTooShort ==
    ShortNameCall => (FailedBeforeLedger /\ result.err = TooShort)

\* C8, amended: with a name shorter than minLength, bidFactory fails with
\* TooShort, and openAuction fails with TooShort when the name normalises
\* and with the error of normalise when it does not; in every case before
\* any ledger call.
C8_ShortNameFailsBeforeLedger ==
    ShortNameCall =>
        /\ FailedBeforeLedger
        /\ result.err =
             (IF result.op = "openAuction" /\ normaliseThrows(result.input)
              THEN NormaliseError ELSE TooShort)

C8_Witness ==
    /\ ShortNameCall
    /\ result.op = "openAuction"
    /\ result.cb
    /\ result.how = "callback"
    /\ result.err = TooShort

\* submitBid was called: result.input is <<bid, params>>
SubmitBidCall == result.op = "submitBid" /\ result.how # "completed"

\* the deposit of the call is a number below the value of the bid
DepositBelowBid ==
    /\ SubmitBidCall
    /\ result.input[2].value # Undefined
    /\ result.input[2].value[1] < result.input[1].value[1]

\* C9: submitBid with a deposit below the value of the bid fails with
\* NoDeposit, thrown or handed to the callback, and issues no newBid.
C9_LowDepositRejected ==
    DepositBelowBid => (FailedBeforeLedger /\ result.err = NoDeposit)

C9_Witness ==
    /\ DepositBelowBid
    /\ result.cb
    /\ result.how = "callback"
    /\ result.err = NoDeposit

\* C10: submitBid issues newBid only when the deposit is a number at least
\* the value of the bid; in every other case, a call without a deposit
\* included, it fails with NoDeposit and issues nothing.
C10_NewBidOnlyWithDeposit ==
    SubmitBidCall =>
        IF /\ result.input[2].value # Undefined
           /\ result.input[2].value[1] >= result.input[1].value[1]
        THEN Len(result.calls) = 1
        ELSE FailedBeforeLedger /\ result.err = NoDeposit

\* a call of op has run to the point where it returns, throws, calls the
\* callback or leaves a request with web3
Called(op) == result.op = op /\ result.how # "completed"

\* openAuction got as far as the ledger: the write was sent
OpenAuctionSent ==
    /\ Called("openAuction")
    /\ result.how \in {"returned", "dispatched"}

\* the batch of the startAuctions write of the call
SentBatch == result.calls[1].args[1]

\* the identifier of the name the call was made for
TargetHash == sha3(normalise(result.input))

\* the places of the batch that hold the identifier h
PlacesOf(h) == {i \in DOMAIN SentBatch : SentBatch[i] = h}

OneStartAuctions ==
    /\ Len(result.calls) = 1
    /\ result.calls[1].method = "startAuctions"
    /\ DOMAIN SentBatch = 1..BatchSize

\* C11, as claimed: a successful openAuction dispatches one startAuctions
\* write; its batch has ten identifiers, the identifier of the normalised
\* name at exactly one place, and nine others that are pairwise distinct
\* and differ from it.
C11_NineDistinctDecoys ==
    OpenAuctionSent =>
        /\ OneStartAuctions
        /\ Cardinality(PlacesOf(TargetHash)) = 1
        /\ Cardinality({SentBatch[i] : i \in DOMAIN SentBatch}) = BatchSize

\* C11, amended: a successful openAuction dispatches one startAuctions
\* write; its batch has ten identifiers, the identifier of the normalised
\* name at one place at least, and at every other place the hash of a
\* string Math.random() gave; two of these may be equal, and one may equal
\* the identifier of the name.
C11_BatchOfTenHoldsTarget ==
    OpenAuctionSent =>
        /\ OneStartAuctions
        /\ PlacesOf(TargetHash) # {}
        /\ \E j \in PlacesOf(TargetHash) :
              \A i \in DOMAIN SentBatch \ {j} :
                 \E k \in 1..BatchSize : SentBatch[i] = sha3(RandomString(k))

\* a batch in which the first two decoys are the same identifier
C11_Witness ==
    /\ OpenAuctionSent
    /\ PlacesOf(TargetHash) = {BatchSize}
    /\ SentBatch[1] = SentBatch[MaxDup]
    /\ MaxDup > 1

\* isBidRevealed has the answer of the ledger: result.input.answer holds
\* the address sealedBids gave, result.val what the caller is told
BidRevealedAnswered ==
    /\ result.op = "isBidRevealed"
    /\ result.how \in {"returned", "completed"}
    /\ result.err = NoError

\* C12: isBidRevealed tells true exactly when the address sealedBids gave
\* for bid.shaBid is the zero address, as return value and as result of
\* the callback alike; the call sends one request, the read sealedBids of
\* bid.shaBid, and nothing else.
C12_RevealedIffZeroAddress ==
    /\ BidRevealedAnswered =>
          /\ result.val = Some(result.input.answer = Some(ZeroAddress))
          /\ result.how = (IF result.cb THEN "completed" ELSE "returned")
    /\ Called("isBidRevealed") =>
          /\ Len(result.calls) = 1
          /\ result.calls[1] = Call("sealedBids", <<result.input.bid.shaBid>>)

C12_Witness ==
    /\ BidRevealedAnswered
    /\ result.cb
    /\ result.input.answer = Some(ZeroAddress)
    /\ result.val = Some(TRUE)

\* what the ledger computes from the first four arguments of a write
Recomputed(args) == shaBid(args[1], args[2], args[3], args[4])

\* C13: the hash, owner, value and hexSecret unsealBid sends, taken in the
\* order sent, give under shaBid the commitment bidFactory stored in
\* bid.shaBid, which is the commitment submitBid sends.
C13_UnsealSendsTheSealedTuple ==
    /\ Called("unsealBid") =>
          /\ Len(result.calls) = 1
          /\ result.calls[1].method = "unsealBid"
          /\ Recomputed(result.calls[1].args) = result.input[1].shaBid
    /\ (Called("submitBid") /\ Len(result.calls) = 1) =>
          result.calls[1].args[1] = result.input[1].shaBid

C13_Witness ==
    /\ Called("unsealBid")
    /\ result.how = "returned"
    /\ result.input[1].hash # result.input[1].hexSecret
    /\ result.calls[1].args[3] = Some(MaxValue)

\* the operations that take a callback
CallbackOps ==
    {"getEntry", "openAuction", "submitBid", "unsealBid", "isBidRevealed",
     "finalizeAuction"}

\* C14: a call with a callback completes through the callback, at once or
\* when web3 calls it back, and neither returns a result nor throws; a call
\* without one returns or throws.
C14_CallbackOrReturn ==
    (result.op \in CallbackOps /\ result.how # "completed") =>
        IF result.cb
        THEN result.how \in {"callback", "dispatched"}
        ELSE result.how \in {"returned", "threw"}

\* C15: with a callback, every failure of an operation reaches the caller
\* in the error slot of the callback.
C15_FailureInErrorSlot ==
    (result.op \in CallbackOps /\ result.cb /\ result.err # NoError) =>
        result.how \in {"callback", "completed"}

\* the public operations
PublicOps == CallbackOps \cup {"getDeed", "bidFactory"}

\* C16, as claimed: a call of a public operation sends at most one request
\* to the ledger.
C16_AtMostOneRequest ==
    (result.op \in PublicOps /\ result.how # "completed") =>
        Len(result.calls) <= 1

\* C16, amended: getDeed sends at most three requests (getBalance,
\* creationDate, owner), getEntry at most four (entries and those of
\* getDeed) and one when the entry has no deed; every other public
\* operation sends at most one.
C16_RequestsPerCall ==
    (result.op \in PublicOps /\ result.how # "completed") =>
        /\ Len(result.calls) <=
              (IF result.op = "getDeed" THEN 3
               ELSE IF result.op = "getEntry" THEN 4 ELSE 1)
        /\ (/\ result.op = "getEntry"
            /\ result.how \in {"returned", "callback"}
            /\ result.val.deed.address = ZeroAddress) => Len(result.calls) = 1

C16_Witness ==
    /\ result.op = "getEntry"
    /\ result.how = "returned"
    /\ Len(result.calls) = 4

\* the write each writing operation sends
WriteOf ==
    [openAuction |-> "startAuctions", submitBid |-> "newBid",
     unsealBid |-> "unsealBid", finalizeAuction |-> "finalizeAuction"]

\* C17: a call of openAuction, submitBid, unsealBid or finalizeAuction
\* sends its write at most once; a write that fails reaches the caller as
\* the error thrown or handed to the callback, and nothing is sent again.
C17_WriteSentOnce ==
    result.op \in DOMAIN WriteOf =>
        /\ Len(result.calls) <= 1
        /\ \A i \in DOMAIN result.calls : result.calls[i].method = WriteOf[result.op]
        /\ (result.how = "threw" /\ Len(result.calls) = 1) => result.err = LedgerError
        /\ result.how = "completed" =>
              /\ Len(result.calls) = 0
              /\ result.err \in {NoError, LedgerError}
              /\ result.err = LedgerError <=> result.input.answer = Undefined

C17_Witness ==
    /\ result.op = "submitBid"
    /\ result.how = "completed"
    /\ result.err = LedgerError
    /\ pending = <<>>

\* C18: sha3 gives for every input the digest with one 0x in front,
\* whether web3.sha3 puts the prefix or not; so do the hashes a call sends.
C18_PrefixedOnce ==
    /\ \A x \in Names \cup Secrets :
          /\ sha3(x) = HexDigest(1, x.s)
          /\ length(sha3(x)) = length(HexDigest(1, x.s))
    /\ (Called("finalizeAuction") /\ Len(result.calls) = 1) =>
          result.calls[1].args[1] = HexDigest(1, normalise(result.input).s)

\* a hash sent where web3.sha3 gives the digest without prefix
C18_Witness ==
    /\ ~web3Prefixed
    /\ Called("finalizeAuction")
    /\ Len(result.calls) = 1
    /\ StartsWith0x(result.calls[1].args[1])

\* a Deed has been built: by getDeed, or by getEntry for its Entry
DeedBuilt ==
    \/ result.op = "getDeed" /\ result.how = "returned"
    \/ EntryBuilt

BuiltDeed == IF result.op = "getDeed" THEN result.val ELSE result.val.deed

\* the addresses of the ledger
Addresses == {ZeroAddress, DeedAddress}

\* null in each of the four fields; the address of a Deed is a string
DeedNulls(d) ==
    <<d.address \notin Addresses, d.balance = Null, d.creationDate = Null,
      d.owner = Null>>

\* C19, as claimed: the four fields of a Deed are all null or all non-null.
C19_AllNullOrNone ==
    DeedBuilt =>
        \A i, j \in 1..4 : DeedNulls(BuiltDeed)[i] = DeedNulls(BuiltDeed)[j]

\* C19, amended: address is never null; balance, creationDate and owner
\* are all null or all non-null, and in the Deed of an Entry they are null
\* exactly when the address is the zero address.
C19_ThreeNullOrNone ==
    DeedBuilt =>
        /\ ~DeedNulls(BuiltDeed)[1]
        /\ \A i, j \in 2..4 : DeedNulls(BuiltDeed)[i] = DeedNulls(BuiltDeed)[j]
        /\ result.op = "getEntry" =>
              (DeedNulls(BuiltDeed)[2] <=> BuiltDeed.address = ZeroAddress)
        /\ result.op = "getDeed" => ~DeedNulls(BuiltDeed)[2]

C19_Witness ==
    /\ EntryBuilt
    /\ BuiltDeed.address = ZeroAddress
    /\ BuiltDeed.owner = Null

\* C20: openAuction sends startAuctions only when the normalised name has
\* at least minLength characters; with a shorter one it fails with
\* TooShort, with a name normalise rejects it fails with the error of
\* normalise, and in both cases nothing is sent.
C20_NormalisedLengthDecides ==
    Called("openAuction") =>
        IF normaliseThrows(result.input)
        THEN FailedBeforeLedger /\ result.err = NormaliseError
        ELSE IF length(normalise(result.input)) < minLength
        THEN FailedBeforeLedger /\ result.err = TooShort
        ELSE OpenAuctionSent \/ result.how = "threw"

\* isBidRevealed has answered for the commitment ledger.asked holds
RevealAnswered == BidRevealedAnswered /\ ledger.asked # Undefined

AskedBid == ledger.asked[1]

\* C21: against a ledger that stores a record on submit and clears it on a
\* successful reveal, isBidRevealed tells true only for a bid that was
\* submitted and then revealed, and false for a bid submitted and not yet
\* revealed and for a bid never submitted.
C21_TrueOnlyAfterReveal ==
    RevealAnswered =>
        /\ result.val = Some(TRUE) => AskedBid \in ledger.revealed
        /\ AskedBid \in ledger.submitted \ ledger.revealed => result.val = Some(FALSE)
        /\ AskedBid \notin ledger.submitted => result.val = Some(FALSE)

\* the place of a mode in the order auction, reveal, finalize, finalize-open
PhasePlace(mode) ==
    IF mode = "auction" THEN 1
    ELSE IF mode = "reveal" THEN 2
    ELSE IF mode = "finalize" THEN 3
    ELSE 4

\* the mode the Entry getEntry built would have, built for the same ledger
\* entry at the time t
ModeAt(t) ==
    EntryMode(result.val.name, result.val.status, result.val.registrationDate, t)

\* C22: for an Entry in status Bidding with a name of valid length, the
\* mode at a later time is never earlier in the order auction, reveal,
\* finalize, finalize-open than the mode at the time the Entry was built.
C22_PhaseNeverGoesBack ==
    BiddingEntry =>
        \A t \in TimePoints :
            t >= result.val.constructedAt =>
                PhasePlace(ModeAt(t)) >= PhasePlace(result.val.mode)

====
